---------------------------- MODULE Spec2Model ----------------------------
(***************************************************************************)
(* A model of the truth-discovery package `spectrum`:                      *)
(*   majority.py      majority_vote / elect                                *)
(*   judge/lca.py     simpleLCA_EM (EM), simpleLCA_VI (batched BBVI)       *)
(*   judge/lca_tf.py  LCA (per-claim variational skeleton)                 *)
(*                                                                         *)
(* Conventions.                                                            *)
(*  - A pandas DataFrame is a sequence of rows; a row is a record whose    *)
(*    domain is the frame's column set.  DataFrames and numpy arrays are   *)
(*    objects: the variables `frames` and `arrays` are the heap, and the   *)
(*    attributes that hold them (self.claims, self.theta_old, ...) hold    *)
(*    references, so that `a = b` (aliasing) and `a = b.copy()` differ.    *)
(*  - numpy/Python floats are modelled by exact rationals <<n, d>> in      *)
(*    lowest terms with d > 0.  The L2 norm is kept as its square          *)
(*    (diff < alpha is decided as diff^2 < alpha^2, both sides being       *)
(*    non-negative).                                                       *)
(*  - Python containers indexed from 0 are functions on 0..n-1.            *)
(*  - An optional Python value is a tagged tuple: None is <<"None">> and    *)
(*    the value v is <<"Some", v>>, so that `None == v` is false for all   *)
(*    v.                                                                   *)
(***************************************************************************)
EXTENDS Integers, Sequences, FiniteSets, TLC

(***************************************************************************)
(* Bounds of the model.                                                    *)
(***************************************************************************)
\* largest source_id / object_id of a generated claims table
MaxId == 1
\* largest value code of a generated claims table
MaxValue == 1
\* largest number of rows of a generated claims table
MaxRows == 2
\* largest denominator of an honesty for which the model follows a further
\* call that reads it (the rationals of an EM iteration outgrow the
\* 32-bit integers of TLC after two or three iterations)
MaxDenominator == 4
\* largest number of passes of the EM loop that the model follows
MaxPasses == 3
\* largest domain size handed to _build_claim_probs
MaxDomain == 4
\* the honesty probabilities handed to _build_claim_probs are k / MaxGrid
MaxGrid == 4

(***************************************************************************)
(* Rational arithmetic (the model of float arithmetic).                    *)
(***************************************************************************)
RECURSIVE Gcd(_, _)
Gcd(a, b) == IF b = 0 THEN a ELSE Gcd(b, a % b)

Abs(x) == IF x < 0 THEN -x ELSE x

\* the rational n/d in lowest terms, d # 0
Rat(n, d) ==
    LET g == Gcd(Abs(n), Abs(d))
        s == IF d < 0 THEN -1 ELSE 1
    IN  <<(s * n) \div g, (s * d) \div g>>

\* sums and products cancel common factors before they multiply, which keeps
\* the intermediate integers small
RAdd(p, q) ==
    LET g == Gcd(p[2], q[2])
    IN  Rat(p[1] * (q[2] \div g) + q[1] * (p[2] \div g), (p[2] \div g) * q[2])
RNeg(p)    == <<-p[1], p[2]>>
RSub(p, q) == RAdd(p, RNeg(q))
RMul(p, q) ==
    LET g1 == Gcd(Abs(p[1]), q[2])
        g2 == Gcd(Abs(q[1]), p[2])
    IN  <<(p[1] \div g1) * (q[1] \div g2), (p[2] \div g2) * (q[2] \div g1)>>
RInv(p)    == IF p[1] < 0 THEN <<-p[2], -p[1]>> ELSE <<p[2], p[1]>>
RDiv(p, q) == RMul(p, RInv(q))
RInt(n)    == <<n, 1>>

Zero == RInt(0)
One  == RInt(1)

\* sum / product of f[i] over i in lo..hi (f a function into rationals)
RECURSIVE RSum(_, _, _)
RSum(f, lo, hi) == IF lo > hi THEN Zero ELSE RAdd(f[lo], RSum(f, lo + 1, hi))

RECURSIVE RProd(_, _, _)
RProd(f, lo, hi) == IF lo > hi THEN One ELSE RMul(f[lo], RProd(f, lo + 1, hi))


\* a / b < c / d for a, c >= 0 and b, d > 0, decided on the continued
\* fractions so that no product is formed (a float comparison)
RECURSIVE FracLess(_, _, _, _)
FracLess(a, b, c, d) ==
    IF a \div b # c \div d THEN a \div b < c \div d
    ELSE IF c % d = 0 THEN FALSE
    ELSE IF a % b = 0 THEN TRUE
    ELSE FracLess(d, c % d, b, a % b)

(***************************************************************************)
(* pandas: the operations of DataFrame the package uses.                   *)
(***************************************************************************)
\* df[c].unique() as a set
Unique(df, c) == {df[i][c] : i \in 1..Len(df)}

\* df[c].nunique()
NUnique(df, c) == Cardinality(Unique(df, c))

\* position of label x in the sorted index made of the labels S
Rank(S, x) == Cardinality({y \in S : y < x})

\* label at position i of the sorted index made of the labels S
Label(S, i) == CHOOSE x \in S : Rank(S, x) = i

\* df.pivot(index, columns, values) raises ValueError ("Index contains
\* duplicate entries, cannot reshape") when two rows share (index, columns)
PivotRaises(df, index, columns) ==
    \E i, j \in 1..Len(df) :
        i # j /\ df[i][index] = df[j][index] /\ df[i][columns] = df[j][columns]

\* df.pivot(index, columns, values): a dense matrix over the sorted distinct
\* index labels x the sorted distinct column labels; a cell with no row is
\* missing (NaN), here the empty set
Pivot(df, index, columns, values) ==
    LET I == Unique(df, index)
        C == Unique(df, columns)
    IN  [r \in 0..Cardinality(I) - 1 |->
            [c \in 0..Cardinality(C) - 1 |->
                {df[k][values] : k \in {k \in 1..Len(df) :
                    df[k][index] = Label(I, r) /\ df[k][columns] = Label(C, c)}}]]

\* M.fillna(x) followed by .values
FillNa(M, x) ==
    [r \in DOMAIN M |-> [c \in DOMAIN M[r] |->
        IF M[r][c] = {} THEN x ELSE CHOOSE v \in M[r][c] : TRUE]]

\* df.groupby(key).max()[col]: a Series indexed by the distinct keys
GroupMax(df, key, col) ==
    [k \in Unique(df, key) |->
        CHOOSE m \in {df[i][col] : i \in {i \in 1..Len(df) : df[i][key] = k}} :
            \A i \in 1..Len(df) : df[i][key] = k => df[i][col] <= m]

\* df[cols]: the frame restricted to the columns cols
Project(df, cols) == [i \in 1..Len(df) |-> [c \in cols |-> df[i][c]]]

\* df[c] = values (adds or overwrites a column; values indexed from 0)
WithColumn(df, c, values) ==
    [i \in 1..Len(df) |->
        [k \in DOMAIN df[i] \cup {c} |-> IF k = c THEN values[i - 1] ELSE df[i][k]]]

\* the columns of a (non-empty) frame
Columns(df) == DOMAIN df[1]

ClaimColumns == {"source_id", "object_id", "value"}

(***************************************************************************)
(* The claims tables the caller may hand over.                             *)
(***************************************************************************)
Row(s, o, v) == [source_id |-> s, object_id |-> o, value |-> v]

Rows == {Row(s, o, v) : s \in 0..MaxId, o \in 0..MaxId, v \in 0..MaxValue}

\* ids are dense and zero-based (the input contract of the package)
Dense(df) ==
    /\ Unique(df, "source_id") = 0..NUnique(df, "source_id") - 1
    /\ Unique(df, "object_id") = 0..NUnique(df, "object_id") - 1

GeneratedTables ==
    {t \in UNION {[1..n -> Rows] : n \in 1..MaxRows} : Dense(t)}

\* the two fixtures of the EM test suite
FixtureA ==
    <<Row(0, 0, 0), Row(0, 1, 1), Row(1, 1, 3), Row(1, 0, 1), Row(2, 2, 1)>>

FixtureB ==
    <<Row(0, 0, 0), Row(0, 1, 1), Row(1, 1, 0), Row(1, 0, 1), Row(2, 2, 1)>>

\* three sources vote 1, 1, 2 on one object whose id is not zero
VoteTable == <<Row(0, 5, 1), Row(1, 5, 1), Row(2, 5, 2)>>

Tables == GeneratedTables \cup {FixtureA, FixtureB, VoteTable}

(***************************************************************************)
(* State.                                                                  *)
(***************************************************************************)
VARIABLES
    \* the heap
    frames,        \* DataFrame objects: "caller", "em_copy", "vi_copy"
    arrays,        \* numpy arrays holding honesty vectors: "a0", "a1"
    \* the caller
    sut,           \* the algorithm the caller chose to invoke
    input,         \* the table as it was when the caller handed it over
    written,       \* the table as the caller itself last wrote it
    \* majority_vote
    mv_ret,        \* the returned frame
    \* simpleLCA_EM: the attributes of self
    claims,        \* reference to a frame
    observation, weight, n_sources, n_objects, domain_size,
    posterior, prior, value_index,
    theta_old,     \* reference to an array
    theta_new,     \* reference to an array
    \* simpleLCA_EM: control
    em_pc,         \* "new", "raised", "idle", or the position inside discover
    alpha, step, diff,   \* the argument and the locals of discover
    em_ret,        \* what discover returned last
    \* simpleLCA_EM: history of the current pass of discover
    e_used,        \* the honesty vector the pass's E-step read
    m_produced,    \* the honesty vector the pass's M-step wrote
    last_step,     \* the step that ran last: "none", "e_step" or "m_step"
    \* LCA and simpleLCA_VI: the attributes of self, and what discover returned
    lca, lca_ret, vi, vi_ret,
    \* _build_claim_probs called on its own
    bcp_args,      \* the arguments: honest_prob, domain_size, truth
    bcp_ret        \* the class whose method ran, and the vector it returned

heap_vars == <<frames, arrays>>
caller_vars == <<sut, input, written>>
em_data == <<claims, observation, weight, n_sources, n_objects, domain_size,
             prior, value_index>>
em_theta == <<theta_old, theta_new>>
em_ctl == <<em_pc, alpha, step, diff, em_ret>>
em_hist == <<e_used, m_produced>>
em_vars == <<em_data, posterior, em_theta, em_ctl, em_hist, last_step>>
var_vars == <<lca, lca_ret, vi, vi_ret>>
probs_vars == <<bcp_args, bcp_ret>>
vars == <<heap_vars, caller_vars, mv_ret, em_vars, var_vars, probs_vars>>

\* a reference that refers to nothing, and a name bound to nothing
Null == "null"
Unset == <<>>

\* the state of the package before anything of it ran
InitPackage ==
    /\ \E t \in Tables :
           /\ frames = [f \in {"caller", "em_copy", "vi_copy"} |->
                           IF f = "caller" THEN t ELSE Unset]
           /\ written = t
    /\ arrays = [a \in {"a0", "a1"} |-> Unset]
    /\ sut = "none" /\ input = Unset
    /\ mv_ret = Unset
    /\ claims = Null /\ observation = Unset /\ weight = Unset
    /\ n_sources = 0 /\ n_objects = 0 /\ domain_size = Unset
    /\ posterior = Unset /\ prior = Unset /\ value_index = Unset
    /\ theta_old = Null /\ theta_new = Null
    /\ em_pc = "new" /\ alpha = Zero /\ step = 0 /\ diff = Zero
    /\ em_ret = Unset /\ e_used = Unset /\ m_produced = Unset
    /\ last_step = "none"
    /\ lca = [pc |-> "new"] /\ lca_ret = Unset
    /\ vi = [pc |-> "new"] /\ vi_ret = Unset

Init ==
    /\ InitPackage
    /\ bcp_args = Unset /\ bcp_ret = Unset

(***************************************************************************)
(* majority.py                                                             *)
(***************************************************************************)
\* the rows of one group of df.groupby(key)
Group(df, key, k) == SelectSeq(df, LAMBDA r : r[key] = k)

\* x.value.value_counts(): a Series indexed by the distinct values
value_counts(x) ==
    [v \in Unique(x, "value") |-> Cardinality({i \in 1..Len(x) : x[i].value = v})]

\* a plausible slip: the value with the fewest votes
elect_idxmin(x) ==
    {v \in DOMAIN value_counts(x) :
        \A w \in DOMAIN value_counts(x) : value_counts(x)[w] >= value_counts(x)[v]}

\* elect(x) = x.value.value_counts().idxmax(): the label of a largest count.
\* The order value_counts gives equal counts is not fixed by pandas, so the
\* result is any of the labels that reach the largest count.
elect(x) ==
    {v \in DOMAIN value_counts(x) :
        \A w \in DOMAIN value_counts(x) : value_counts(x)[w] <= value_counts(x)[v]}

\* the frame majority_vote builds from the per-group results `elected`:
\* groupby sorts the keys; rename and reset_index give [object_id, value]
discovered_truths(c_df, elected) ==
    LET O == Unique(c_df, "object_id")
    IN  [i \in 1..Cardinality(O) |->
            [object_id |-> Label(O, i - 1), value |-> elected[Label(O, i - 1)]]]

majority_vote ==
    /\ sut = "none"
    /\ sut' = "majority_vote"
    /\ input' = frames["caller"]
    /\ LET c_df == Project(frames["caller"], ClaimColumns)
       IN  \E elected \in [Unique(c_df, "object_id") -> Unique(c_df, "value")] :
               /\ \A o \in DOMAIN elected :
                      elected[o] \in elect(Group(c_df, "object_id", o))
               /\ mv_ret' = discovered_truths(c_df, elected)
    /\ UNCHANGED <<heap_vars, written, em_vars, var_vars>>
    /\ UNCHANGED probs_vars

(***************************************************************************)
(* judge/lca.py: simpleLCA_EM, construction                                *)
(***************************************************************************)
\* np.arange(0, n)
arange(n) == [i \in 0..n - 1 |-> i]

\* value * np.ones(shape=(n, ))
full(n, value) == [i \in 0..n - 1 |-> value]

\* a plausible slip: the missing cells filled with 0, which is a value code
compute_observation_matrix_fill0(df) ==
    FillNa(Pivot(df, "source_id", "claim_id", "value"), 0)

\* B = self.claims.pivot(source_id, claim_id, value); B.fillna(-1); B.values
compute_observation_matrix(df) ==
    FillNa(Pivot(df, "source_id", "claim_id", "value"), -1)

\* a plausible slip: a claim whose value is 0 is lost (W > 0 instead of W >= 0)
compute_weight_matrix_gt(df) ==
    LET W == FillNa(Pivot(Project(df, ClaimColumns),
                          "source_id", "object_id", "value"), -1)
    IN  [r \in DOMAIN W |-> [c \in DOMAIN W[r] |-> IF W[r][c] > 0 THEN 1 ELSE 0]]

\* W = pivot(source_id, object_id, value); W.fillna(-1); W[W >= 0] = 1;
\* W[W < 0] = 0; W.values
compute_weight_matrix(df) ==
    LET W  == FillNa(Pivot(Project(df, ClaimColumns),
                           "source_id", "object_id", "value"), -1)
        W1 == [r \in DOMAIN W |-> [c \in DOMAIN W[r] |->
                  IF W[r][c] >= 0 THEN 1 ELSE W[r][c]]]
    IN  [r \in DOMAIN W1 |-> [c \in DOMAIN W1[r] |->
            IF W1[r][c] < 0 THEN 0 ELSE W1[r][c]]]

\* a plausible slip: the domain size taken as the number of distinct values
_compute_prob_desc_nunique(df) ==
    [n_sources   |-> NUnique(df, "source_id"),
     n_objects   |-> NUnique(df, "object_id"),
     domain_size |-> [o \in Unique(df, "object_id") |->
                        NUnique(Group(df, "object_id", o), "value")]]

\* _compute_prob_desc: (n_sources, n_objects, domain_size), domain_size a
\* Series indexed by object_id
_compute_prob_desc(df) ==
    [n_sources   |-> NUnique(df, "source_id"),
     n_objects   |-> NUnique(df, "object_id"),
     domain_size |-> [o \in Unique(df, "object_id") |->
                        GroupMax(df, "object_id", "value")[o] + 1]]

\* the (s_id, o_id) -> v dict built row by row: a later row overwrites
build_value_index(df) ==
    [p \in {<<df[i].source_id, df[i].object_id>> : i \in 1..Len(df)} |->
        LET last == CHOOSE i \in 1..Len(df) :
                /\ <<df[i].source_id, df[i].object_id>> = p
                /\ \A j \in 1..Len(df) :
                       <<df[j].source_id, df[j].object_id>> = p => j <= i
        IN  df[last].value]

\* the constructor raises: pivot on duplicated (source_id, object_id)
\* (ValueError), or domain_size[o] for an o in range(n_objects) that is no
\* object_id (KeyError)
init_raises(df) ==
    \/ PivotRaises(df, "source_id", "object_id")
    \/ \E o \in 0.._compute_prob_desc(df).n_objects - 1 :
           o \notin DOMAIN _compute_prob_desc(df).domain_size

\* simpleLCA_EM(claims), claims being the caller's frame
EM_init ==
    /\ sut = "none"
    /\ sut' = "simpleLCA_EM"
    /\ input' = frames["caller"]
    /\ LET df   == WithColumn(frames["caller"], "claim_id",
                              arange(Len(frames["caller"])))
           desc == _compute_prob_desc(df)
       IN  IF init_raises(df)
           THEN /\ em_pc' = "raised"
                /\ UNCHANGED <<heap_vars, em_data, posterior, em_theta>>
           ELSE /\ em_pc' = "idle"
                /\ frames' = [frames EXCEPT !["em_copy"] = df]
                /\ claims' = "em_copy"
                /\ observation' = compute_observation_matrix(df)
                /\ weight' = compute_weight_matrix(df)
                /\ n_sources' = desc.n_sources
                /\ n_objects' = desc.n_objects
                /\ domain_size' = desc.domain_size
                /\ posterior' = <<>>
                /\ prior' = [o \in 0..desc.n_objects - 1 |->
                                full(desc.domain_size[o],
                                     Rat(1, desc.domain_size[o]))]
                /\ value_index' = build_value_index(frames["caller"])
                /\ arrays' = [arrays EXCEPT
                                 !["a0"] = full(desc.n_sources, Rat(1, 2)),
                                 !["a1"] = full(desc.n_sources, Rat(99, 100))]
                /\ theta_old' = "a0"
                /\ theta_new' = "a1"
    /\ UNCHANGED <<written, mv_ret, alpha, step, diff, em_ret, em_hist,
                   last_step, var_vars>>
    /\ UNCHANGED probs_vars

(***************************************************************************)
(* judge/lca.py: simpleLCA_EM, the E-step and the M-step                   *)
(***************************************************************************)
None == <<"None">>
Some(v) == <<"Some", v>>

\* a plausible slip: a missing pair reads as value 0 (dict.get(key, 0))
get_value_default0(s_id, o_id) ==
    IF <<s_id, o_id>> \in DOMAIN value_index
    THEN Some(value_index[<<s_id, o_id>>])
    ELSE Some(0)

get_value(s_id, o_id) ==
    IF <<s_id, o_id>> \in DOMAIN value_index
    THEN Some(value_index[<<s_id, o_id>>])
    ELSE None

\* a plausible slip: the wrong-value mass spread over the other |o| - 1 values
compute_responsibility_minus1(o_id, v) ==
    LET resp == [s_id \in 0..n_sources - 1 |->
            IF weight[s_id][o_id] = 1
            THEN IF get_value(s_id, o_id) = Some(v)
                 THEN arrays[theta_old][s_id]
                 ELSE RDiv(RSub(One, arrays[theta_old][s_id]),
                           RInt(domain_size[o_id] - 1))
            ELSE One]
    IN  RProd(resp, 0, n_sources - 1)

compute_responsibility(o_id, v) ==
    LET resp == [s_id \in 0..n_sources - 1 |->
            IF weight[s_id][o_id] = 1
            THEN IF get_value(s_id, o_id) = Some(v)
                 THEN arrays[theta_old][s_id]
                 ELSE RDiv(RSub(One, arrays[theta_old][s_id]),
                           RInt(domain_size[o_id]))
            ELSE One]
    IN  RProd(resp, 0, n_sources - 1)

compute_joint(o_id) ==
    [v \in 0..domain_size[o_id] - 1 |->
        RMul(prior[o_id][v], compute_responsibility(o_id, v))]

\* the value e_step stores at posterior[o]
e_step_posterior(o) ==
    LET joint_prob == compute_joint(o)
        total == RSum(joint_prob, 0, domain_size[o] - 1)
    IN  [v \in DOMAIN joint_prob |-> RDiv(joint_prob[v], total)]

e_step ==
    posterior' = [o \in 0..n_objects - 1 |-> e_step_posterior(o)]

\* sum of a row of integers
RECURSIVE ISum(_, _, _)
ISum(f, lo, hi) == IF lo > hi THEN 0 ELSE f[lo] + ISum(f, lo + 1, hi)

\* a plausible slip: normalised by the number of objects of the problem
compute_honest_all_objects(s_id) ==
    LET term == [o \in 0..n_objects - 1 |->
            RSum([v \in 0..domain_size[o] - 1 |->
                     IF weight[s_id][o] = 1 /\ get_value(s_id, o) = Some(v)
                     THEN posterior[o][v] ELSE Zero],
                 0, domain_size[o] - 1)]
    IN  RDiv(RSum(term, 0, n_objects - 1), RInt(n_objects))

\* the value compute_honest(s_id) stores at theta_new[s_id]
compute_honest(s_id) ==
    LET number_of_objects == ISum(weight[s_id], 0, n_objects - 1)
        mask(o, v) == weight[s_id][o] * (IF get_value(s_id, o) = Some(v) THEN 1 ELSE 0)
        term == [o \in 0..n_objects - 1 |->
            RSum([v \in 0..domain_size[o] - 1 |->
                     RMul(posterior[o][v], RInt(mask(o, v)))],
                 0, domain_size[o] - 1)]
    IN  RDiv(RSum(term, 0, n_objects - 1), RInt(number_of_objects))

\* m_step writes into the array theta_new refers to, entry by entry;
\* compute_honest reads no honesty vector, so the order does not matter
m_step ==
    arrays' = [arrays EXCEPT ![theta_new] =
                  [s \in 0..n_sources - 1 |-> compute_honest(s)]]

\* m_step before any e_step: posterior[o] raises KeyError, nothing is written
m_step_raises == posterior = <<>> /\ n_sources > 0

(***************************************************************************)
(* judge/lca.py: simpleLCA_EM, direct calls of e_step and m_step           *)
(***************************************************************************)
\* the model follows a call that reads the honesty vector theta_old while
\* its entries are small enough to compute with
followed == \A s \in 0..n_sources - 1 : arrays[theta_old][s][2] <= MaxDenominator

call_e_step ==
    /\ em_pc = "idle" /\ followed
    /\ e_step
    /\ last_step' = "e_step"
    /\ UNCHANGED <<heap_vars, caller_vars, mv_ret, em_data, em_theta, em_pc,
                   alpha, step, diff, em_ret, em_hist, var_vars>>
    /\ UNCHANGED probs_vars

call_m_step ==
    /\ em_pc = "idle"
    /\ IF m_step_raises
       THEN UNCHANGED <<arrays, last_step>>
       ELSE m_step /\ last_step' = "m_step"
    /\ UNCHANGED <<frames, caller_vars, mv_ret, em_data, posterior, em_theta,
                   em_pc, alpha, step, diff, em_ret, em_hist, var_vars>>
    /\ UNCHANGED probs_vars

(***************************************************************************)
(* judge/lca.py: simpleLCA_EM.discover, one action per statement of the    *)
(* loop                                                                    *)
(***************************************************************************)
\* the default of discover's parameter alpha, 1e-4
DefaultAlpha == Rat(1, 10000)

\* the thresholds the caller passes
Alphas == {DefaultAlpha, Rat(1, 4)}

\* the square of np.linalg.norm(x - y, ord=2)
NormSq(x, y) ==
    RSum([i \in DOMAIN x |-> RMul(RSub(x[i], y[i]), RSub(x[i], y[i]))],
         0, Cardinality(DOMAIN x) - 1)

\* p < q for non-negative rationals
Less(p, q) == FracLess(p[1], p[2], q[1], q[2])

\* diff < alpha, on the squares
converged == Less(diff, RMul(alpha, alpha))

_compute_trust ==
    [s \in 0..n_sources - 1 |->
        [dist |-> "Bernoulli", probs |-> arrays[theta_old][s]]]

_compute_truth ==
    [o \in 0..n_objects - 1 |->
        [dist |-> "Categorical", probs |-> posterior[o]]]

\* discover(alpha): step = 0, enter the loop
discover_call ==
    /\ em_pc = "idle" /\ followed
    /\ \E a \in Alphas : alpha' = a
    /\ step' = 0
    /\ em_pc' = "e_step"
    /\ UNCHANGED <<last_step, heap_vars, caller_vars, mv_ret, em_data, posterior,
                   em_theta, diff, em_ret, em_hist, var_vars>>
    /\ UNCHANGED probs_vars

\* self.e_step()
discover_e_step ==
    /\ em_pc = "e_step"
    /\ e_step
    /\ e_used' = arrays[theta_old]
    /\ last_step' = "e_step"
    /\ em_pc' = "m_step"
    /\ UNCHANGED <<heap_vars, caller_vars, mv_ret, em_data, em_theta,
                   alpha, step, diff, em_ret, m_produced, var_vars>>
    /\ UNCHANGED probs_vars

\* self.m_step()
discover_m_step ==
    /\ em_pc = "m_step"
    /\ m_step
    /\ m_produced' = arrays'[theta_new]
    /\ last_step' = "m_step"
    /\ em_pc' = "norm"
    /\ UNCHANGED <<frames, caller_vars, mv_ret, em_data, posterior, em_theta,
                   alpha, step, diff, em_ret, e_used, var_vars>>
    /\ UNCHANGED probs_vars

\* diff = np.linalg.norm(self.theta_old - self.theta_new, ord=2)
discover_norm ==
    /\ em_pc = "norm"
    /\ diff' = NormSq(arrays[theta_old], arrays[theta_new])
    /\ em_pc' = "test"
    /\ UNCHANGED <<last_step, heap_vars, caller_vars, mv_ret, em_data, posterior,
                   em_theta, alpha, step, em_ret, em_hist, var_vars>>
    /\ UNCHANGED probs_vars

\* if (diff < alpha): break
discover_break ==
    /\ em_pc = "test"
    /\ converged
    /\ em_pc' = "return"
    /\ UNCHANGED <<last_step, heap_vars, caller_vars, mv_ret, em_data, posterior,
                   em_theta, alpha, step, diff, em_ret, em_hist,
                   var_vars>>
    /\ UNCHANGED probs_vars

\* a plausible change: the hand-over copies the vector, theta_old keeps its
\* own array (self.theta_old = self.theta_new.copy())
discover_continue_copy ==
    /\ em_pc = "test"
    /\ ~converged
    /\ step + 1 < MaxPasses
    /\ arrays' = [arrays EXCEPT ![theta_old] = arrays[theta_new]]
    /\ step' = step + 1
    /\ em_pc' = "e_step"
    /\ UNCHANGED <<last_step, frames, caller_vars, mv_ret, em_data, posterior,
                   em_theta, alpha, diff, em_ret, em_hist, var_vars>>
    /\ UNCHANGED probs_vars

\* else: self.theta_old = self.theta_new; step += 1
discover_continue ==
    /\ em_pc = "test"
    /\ ~converged
    /\ step + 1 < MaxPasses
    /\ theta_old' = theta_new
    /\ step' = step + 1
    /\ em_pc' = "e_step"
    /\ UNCHANGED <<last_step, heap_vars, caller_vars, mv_ret, em_data, posterior,
                   theta_new, alpha, diff, em_ret, em_hist, var_vars>>
    /\ UNCHANGED probs_vars

\* return self._compute_trust(), self._compute_truth(); the locals of the
\* call are gone
discover_return ==
    /\ em_pc = "return"
    /\ em_ret' = <<_compute_trust, _compute_truth>>
    /\ em_pc' = "idle"
    /\ alpha' = Zero /\ step' = 0 /\ diff' = Zero
    /\ e_used' = Unset /\ m_produced' = Unset
    /\ UNCHANGED <<last_step, heap_vars, caller_vars, mv_ret, em_data, posterior,
                   em_theta, var_vars>>
    /\ UNCHANGED probs_vars

(***************************************************************************)
(* judge/lca_tf.py: LCA.discover                                           *)
(***************************************************************************)
\* the sorted list of the elements of the set S
SortedList(S) == [i \in 1..Cardinality(S) |-> Label(S, i - 1)]

\* LCA._make_observation: x_claim_c -> self.claims.iloc[c]['value']
_make_observation(df) == [c \in 0..Len(df) - 1 |-> df[c + 1].value]

\* LCA().discover(claims): keeps the caller's frame itself, builds the
\* parameters, trains nothing and returns two empty dicts
LCA_discover ==
    /\ sut = "none"
    /\ sut' = "LCA"
    /\ input' = frames["caller"]
    /\ LET df   == frames["caller"]
           desc == _compute_prob_desc(df)
           uniform == [i \in 1..Cardinality(DOMAIN desc.domain_size) |->
                          LET m == Label(DOMAIN desc.domain_size, i - 1)
                          IN  full(desc.domain_size[m], Rat(1, desc.domain_size[m]))]
       IN  lca' = [pc             |-> "done",
                   claims         |-> "caller",
                   n_sources      |-> desc.n_sources,
                   n_objects      |-> desc.n_objects,
                   domain_sizes   |-> desc.domain_size,
                   honest_probs_p |-> full(desc.n_sources, Rat(1, 2)),
                   object_probs_p |-> uniform,
                   honest_probs_q |-> full(desc.n_sources, Rat(1, 2)),
                   object_probs_q |-> uniform,
                   observation    |-> _make_observation(df)]
    /\ lca_ret' = << <<>>, <<>> >>
    /\ UNCHANGED <<heap_vars, written, mv_ret, em_vars, vi, vi_ret>>
    /\ UNCHANGED probs_vars

(***************************************************************************)
(* judge/lca.py: simpleLCA_VI                                              *)
(***************************************************************************)
build_domsize_to_objects(df) ==
    LET domain_df == _compute_prob_desc(df).domain_size
    IN  [d \in {domain_df[o] : o \in DOMAIN domain_df} |->
            SortedList({o \in DOMAIN domain_df : domain_df[o] = d})]

\* sorted(q) for a list of integers q
Sorted(q) ==
    LET pos(i) == Cardinality({j \in 1..Len(q) : q[j] < q[i]})
                  + Cardinality({j \in 1..i : q[j] = q[i]})
    IN  [k \in 1..Len(q) |-> q[CHOOSE i \in 1..Len(q) : pos(i) = k]]

build_object_to_sources(df) ==
    [o \in Unique(df, "object_id") |->
        Sorted([i \in 1..Len(Group(df, "object_id", o)) |->
                   Group(df, "object_id", o)[i].source_id])]

\* _compute_rank(o_id), given the two dicts it reads
_compute_rank(domsize_to_objects, dsize, o_id) ==
    Cardinality({i \in 1..Len(domsize_to_objects[dsize[o_id]]) :
                    o_id > domsize_to_objects[dsize[o_id]][i]})

\* simpleLCA_VI(claims): domain_size[o_id] for o_id in range(n_objects)
\* raises KeyError when o_id is no object_id
VI_init ==
    /\ sut = "none"
    /\ sut' = "simpleLCA_VI"
    /\ input' = frames["caller"]
    /\ LET df   == frames["caller"]
           desc == _compute_prob_desc(df)
       IN  IF \E o \in 0..desc.n_objects - 1 : o \notin DOMAIN desc.domain_size
           THEN vi' = [pc |-> "raised"] /\ UNCHANGED frames
           ELSE /\ frames' = [frames EXCEPT !["vi_copy"] = df]
                /\ vi' = [pc                 |-> "built",
                          claims             |-> "vi_copy",
                          n_sources          |-> desc.n_sources,
                          n_objects          |-> desc.n_objects,
                          domain_size        |-> desc.domain_size,
                          domsize_to_objects |-> build_domsize_to_objects(df),
                          object_to_sources  |-> build_object_to_sources(df),
                          to_batch_idx       |->
                              [o \in 0..desc.n_objects - 1 |->
                                  _compute_rank(build_domsize_to_objects(df),
                                               desc.domain_size, o)]]
    /\ UNCHANGED <<arrays, written, mv_ret, em_vars, lca, lca_ret, vi_ret>>
    /\ UNCHANGED probs_vars

\* simpleLCA_VI.discover(): trains through BBVI and has no return statement
VI_discover ==
    /\ vi.pc = "built"
    /\ vi' = [vi EXCEPT !.pc = "done"]
    /\ vi_ret' = None
    /\ UNCHANGED <<heap_vars, caller_vars, mv_ret, em_vars, lca, lca_ret>>
    /\ UNCHANGED probs_vars

(***************************************************************************)
(* judge/lca.py, judge/lca_tf.py: _build_claim_probs                       *)
(***************************************************************************)
\* the float values that are no numbers: 0/0 and x/0 for x > 0
NaN == <<0, 0>>
Inf == <<1, 0>>

\* float /, * and + on the non-negative floats, with their special values
FDiv(x, y) ==
    IF x = NaN \/ y = NaN THEN NaN
    ELSE IF y = Zero THEN (IF x = Zero THEN NaN ELSE Inf)
    ELSE IF x = Inf THEN Inf
    ELSE RDiv(x, y)
FMul(x, y) ==
    IF x = NaN \/ y = NaN THEN NaN
    ELSE IF x = Inf \/ y = Inf
         THEN (IF x = Zero \/ y = Zero THEN NaN ELSE Inf)
    ELSE RMul(x, y)
FAdd(x, y) ==
    IF x = NaN \/ y = NaN THEN NaN
    ELSE IF x = Inf \/ y = Inf THEN Inf
    ELSE RAdd(x, y)

\* tf.reduce_sum(tf.one_hot([truth], dom_size), axis=0)
one_hot(truth, dom_size) ==
    [i \in 0..dom_size - 1 |-> IF i = truth THEN One ELSE Zero]

\* a plausible slip: the wrong-value mass divided by the domain size, as the
\* EM variant does
_build_claim_probs_domain(honest_prob, dom_size, truth) ==
    LET mask  == one_hot(truth, dom_size)
        other == [i \in DOMAIN mask |-> RSub(One, mask[i])]
        wrong == FDiv(RSub(One, honest_prob), RInt(dom_size))
    IN  [i \in DOMAIN mask |->
            FAdd(FMul(FMul(mask[i], honest_prob), One),
                 FMul(FMul(other[i], wrong), One))]

\* simpleLCA_VI._build_claim_probs
_build_claim_probs(honest_prob, dom_size, truth) ==
    LET mask  == one_hot(truth, dom_size)
        other == [i \in DOMAIN mask |-> RSub(One, mask[i])]
        wrong == FDiv(RSub(One, honest_prob), RInt(dom_size - 1))
    IN  [i \in DOMAIN mask |->
            FAdd(FMul(FMul(mask[i], honest_prob), One),
                 FMul(FMul(other[i], wrong), One))]

\* LCA._build_claim_probs (the same statements, in lca_tf.py)
LCA_build_claim_probs(honest_prob, dom_size, truth) ==
    LET mask  == one_hot(truth, dom_size)
        other == [i \in DOMAIN mask |-> RSub(One, mask[i])]
        wrong == FDiv(RSub(One, honest_prob), RInt(dom_size - 1))
    IN  [i \in DOMAIN mask |->
            FAdd(FMul(FMul(mask[i], honest_prob), One),
                 FMul(FMul(other[i], wrong), One))]

\* the honesty probabilities, domain sizes and truths the method is given:
\* a sigmoid or a trained probability, the domain size of an object (1 for
\* an object whose only asserted value is 0) and a value of that domain
Probs == {Rat(k, MaxGrid) : k \in 0..MaxGrid}

ClaimProbsArgs ==
    {[honest_prob |-> p, domain_size |-> d, truth |-> t] :
        p \in Probs, d \in 1..MaxDomain, t \in 0..MaxDomain - 1}

InitClaimProbs ==
    /\ InitPackage
    /\ frames["caller"] = FixtureB
    /\ bcp_args \in {a \in ClaimProbsArgs : a.truth < a.domain_size}
    /\ bcp_ret = Unset

VI_build_claim_probs ==
    /\ bcp_ret = Unset
    /\ bcp_ret' = [of    |-> "simpleLCA_VI",
                   probs |-> _build_claim_probs(bcp_args.honest_prob,
                                                bcp_args.domain_size,
                                                bcp_args.truth)]
    /\ UNCHANGED <<heap_vars, caller_vars, mv_ret, em_vars, var_vars, bcp_args>>

LCA_build_claim_probs_call ==
    /\ bcp_ret = Unset
    /\ bcp_ret' = [of    |-> "LCA",
                   probs |-> LCA_build_claim_probs(bcp_args.honest_prob,
                                                   bcp_args.domain_size,
                                                   bcp_args.truth)]
    /\ UNCHANGED <<heap_vars, caller_vars, mv_ret, em_vars, var_vars, bcp_args>>

NextClaimProbs ==
    \/ VI_build_claim_probs
    \/ LCA_build_claim_probs_call

SpecClaimProbs == InitClaimProbs /\ [][NextClaimProbs]_vars

(***************************************************************************)
(* The caller                                                              *)
(***************************************************************************)
\* after a discoverer received the table, and between two calls, the caller
\* writes to its own table, once: claims.loc[0, 'value'] += 1
caller_mutate ==
    /\ sut \in {"simpleLCA_EM", "simpleLCA_VI", "LCA"}
    /\ em_pc \in {"new", "idle"}
    /\ written = input
    /\ frames' = [frames EXCEPT !["caller"][1].value = @ + 1]
    /\ written' = [written EXCEPT ![1].value = @ + 1]
    /\ UNCHANGED <<arrays, sut, input, mv_ret, em_vars, var_vars>>
    /\ UNCHANGED probs_vars

Next ==
    \/ majority_vote
    \/ EM_init
    \/ call_e_step
    \/ call_m_step
    \/ discover_call
    \/ discover_e_step
    \/ discover_m_step
    \/ discover_norm
    \/ discover_break
    \/ discover_continue
    \/ discover_return
    \/ LCA_discover
    \/ VI_init
    \/ VI_discover
    \/ caller_mutate

Spec == Init /\ [][Next]_vars

(***************************************************************************)
(* Properties.  They are stated on the table the caller handed over        *)
(* (`input`), not on the structures the code derived from it.              *)
(***************************************************************************)
Sources == Unique(input, "source_id")
Objects == Unique(input, "object_id")

\* a simpleLCA_EM instance exists
Constructed == em_pc \notin {"new", "raised"}

\* source s made a claim about object o; the value it asserted
Claimed(s, o) ==
    \E k \in 1..Len(input) : input[k].source_id = s /\ input[k].object_id = o
Asserted(s, o) ==
    input[CHOOSE k \in 1..Len(input) :
              input[k].source_id = s /\ input[k].object_id = o].value

\* number of claims that assert value v for object o
Votes(o, v) ==
    Cardinality({k \in 1..Len(input) :
                    input[k].object_id = o /\ input[k].value = v})

\* the vector with every entry 1/2
Half(n) == [s \in 0..n - 1 |-> Rat(1, 2)]

---------------------------------------------------------------------------
\* C1: majority_vote returns exactly one (object_id, value) row per distinct
\* object_id of its input and no other row, and each row's value is a mode
\* of that object's claims: asserted at least once for the object, and no
\* other value is asserted for it by strictly more claims.
C1_MajorityVoteReturnsAMode ==
    sut = "majority_vote" =>
        /\ Len(mv_ret) = Cardinality(Objects)
        /\ {mv_ret[i].object_id : i \in 1..Len(mv_ret)} = Objects
        /\ \A i \in 1..Len(mv_ret) :
               /\ DOMAIN mv_ret[i] = {"object_id", "value"}
               /\ Votes(mv_ret[i].object_id, mv_ret[i].value) >= 1
               /\ \A w \in Unique(input, "value") :
                      Votes(mv_ret[i].object_id, w)
                          <= Votes(mv_ret[i].object_id, mv_ret[i].value)

\* object 5 receives 1, 1, 2 and the vote returns 1
C1_Witness ==
    /\ sut = "majority_vote"
    /\ input = VoteTable
    /\ mv_ret = <<[object_id |-> 5, value |-> 1]>>

---------------------------------------------------------------------------
\* C2: on every pass of discover(alpha) the diff compared with alpha is the
\* L2 distance between the honesty vector the pass's E-step used and the one
\* the pass's M-step produced; discover returns at the first pass at which
\* that distance is below alpha, at no earlier and at no later pass.
C2_DiffIsDistanceOfSuccessiveVectors ==
    /\ em_pc = "test" => diff = NormSq(e_used, m_produced)
    /\ em_pc = "return" =>
           Less(NormSq(e_used, m_produced), RMul(alpha, alpha))
    /\ (em_pc = "e_step" /\ step > 0) =>
           ~Less(NormSq(e_used, m_produced), RMul(alpha, alpha))

---------------------------------------------------------------------------
\* C3: after e_step, posterior[o][v] = prior[o][v] * r(o, v) / sum over v' of
\* prior[o][v'] * r(o, v'), r(o, v) being the product over the sources that
\* made a claim about o of theta_old[s] when s asserted v and of
\* (1 - theta_old[s]) / domain_size[o] otherwise; on fixture B with all
\* theta_old = 0.5, r(1, 1) = 0.125, joint(1)[1] = 0.0625 and
\* posterior[1][1] = 0.5.
C3_Factor(s, o, v) ==
    IF ~Claimed(s, o) THEN One
    ELSE IF Asserted(s, o) = v THEN arrays[theta_old][s]
    ELSE RDiv(RSub(One, arrays[theta_old][s]), RInt(domain_size[o]))

C3_R(o, v) ==
    RProd([s \in 0..Cardinality(Sources) - 1 |-> C3_Factor(s, o, v)],
          0, Cardinality(Sources) - 1)

C3_Joint(o) == [v \in 0..domain_size[o] - 1 |-> RMul(prior[o][v], C3_R(o, v))]

---------------------------------------------------------------------------
\* C4: after m_step (run after an e_step), theta_new[s] is the sum over the
\* objects s made a claim about of posterior[o][value s asserted for o],
\* divided by the number of those objects; on fixture B after one E-step and
\* one M-step, theta_new[1] = 0.5.
C4_Theta(s) ==
    RDiv(RSum([o \in 0..Cardinality(Objects) - 1 |->
                  IF Claimed(s, o) THEN posterior[o][Asserted(s, o)] ELSE Zero],
              0, Cardinality(Objects) - 1),
         RInt(Cardinality({o \in Objects : Claimed(s, o)})))

C4_MStepHonesty ==
    last_step = "m_step" =>
        /\ \A s \in Sources : arrays[theta_new][s] = C4_Theta(s)
        /\ (input = FixtureB /\ arrays[theta_old] = Half(3)) =>
               arrays[theta_new][1] = Rat(1, 2)

\* fixture B after the first M-step: source 2 moved, source 1 did not
C4_Witness ==
    /\ last_step = "m_step"
    /\ input = FixtureB
    /\ arrays[theta_old] = Half(3)
    /\ arrays[theta_new][1] = Rat(1, 2)
    /\ arrays[theta_new][2] = Rat(2, 3)

---------------------------------------------------------------------------
\* C5: for each of simpleLCA_EM.discover, simpleLCA_VI.discover and
\* LCA.discover and every claims table with dense zero-based ids, when
\* discover returns, the keys of the returned truth mapping are the distinct
\* object_id values of the input and the keys of the returned trust mapping
\* are its distinct source_id values.
C5_KeySetsOfTruthAndTrust ==
    Dense(input) =>
        /\ em_ret # Unset =>
               /\ DOMAIN em_ret[2] = Objects
               /\ DOMAIN em_ret[1] = Sources
        /\ lca_ret # Unset =>
               /\ DOMAIN lca_ret[1] = Objects
               /\ DOMAIN lca_ret[2] = Sources
        /\ vi.pc = "done" =>
               /\ vi_ret # None
               /\ DOMAIN vi_ret[2] = Objects
               /\ DOMAIN vi_ret[1] = Sources

---------------------------------------------------------------------------
\* C6: discover returns (truth, trust) in this order: the first component is
\* the mapping of objects to Categorical truths, the second the mapping of
\* sources to Bernoulli trusts; for simpleLCA_EM as for LCA.
IsTruth(m) == \A k \in DOMAIN m : m[k].dist = "Categorical"
IsTrust(m) == \A k \in DOMAIN m : m[k].dist = "Bernoulli"

---------------------------------------------------------------------------
\* C7: in every state of a simpleLCA_EM instance, for every object o,
\* domain_size[o] is the largest value asserted for o plus 1, prior[o] has
\* domain_size[o] entries and so has posterior[o] once it is defined.
C7_MaxAsserted(o) ==
    CHOOSE m \in {input[k].value : k \in {k \in 1..Len(input) : input[k].object_id = o}} :
        \A k \in 1..Len(input) : input[k].object_id = o => input[k].value <= m

---------------------------------------------------------------------------
\* C8: for every discoverer, constructing it and running discover leave the
\* caller's table as the caller wrote it (no claim_id column appears in it),
\* and a later write of the caller to its table does not change the claims
\* the discoverer stored.
C8_CallerTableIsolated ==
    /\ frames["caller"] = written
    /\ claims # Null => Project(frames[claims], ClaimColumns) = input
    /\ vi.pc \in {"built", "done"} => frames[vi.claims] = input
    /\ lca.pc = "done" => frames[lca.claims] = input

---------------------------------------------------------------------------
\* C9: get_value(s, o) is the value s asserted for o when the table holds a
\* claim by s about o, and None for every other pair; None differs from
\* every value code, 0 included.  On fixture A, get_value(1, 0) = 1 and
\* get_value(1, 1) = 3.
C9_GetValue ==
    Constructed =>
        /\ \A s \in 0..n_sources - 1 : \A o \in 0..n_objects - 1 :
               IF Claimed(s, o)
               THEN get_value(s, o) = Some(Asserted(s, o))
               ELSE /\ get_value(s, o) = None
                    /\ \A v \in 0..domain_size[o] - 1 : get_value(s, o) # Some(v)
        /\ input = FixtureA =>
               get_value(1, 0) = Some(1) /\ get_value(1, 1) = Some(3)

\* fixture A: an observed pair, and the pair (2, 0) that no claim covers
C9_Witness ==
    /\ Constructed
    /\ input = FixtureA
    /\ get_value(1, 1) = Some(3)
    /\ get_value(0, 0) = Some(0)
    /\ get_value(2, 0) = None

---------------------------------------------------------------------------
\* C10: the weight matrix has one row per distinct source and one column per
\* distinct object, W[s][o] = 1 exactly when the table holds a claim by s
\* about o (a claim of value 0 included) and 0 otherwise.  On fixture A the
\* shape is 3 x 3, W[2][0] = 0 and W[2][2] = 1.
C10_WeightMatrix ==
    Constructed =>
        /\ DOMAIN weight = 0..Cardinality(Sources) - 1
        /\ \A s \in DOMAIN weight :
               /\ DOMAIN weight[s] = 0..Cardinality(Objects) - 1
               /\ \A o \in DOMAIN weight[s] :
                      weight[s][o] = IF Claimed(s, o) THEN 1 ELSE 0
        /\ input = FixtureA =>
               /\ Cardinality(DOMAIN weight) = 3
               /\ Cardinality(DOMAIN weight[0]) = 3
               /\ weight[2][0] = 0
               /\ weight[2][2] = 1

\* fixture A: source 0 asserts the value 0 for object 0, source 2 is silent
\* about it
C10_Witness ==
    /\ Constructed
    /\ input = FixtureA
    /\ Asserted(0, 0) = 0
    /\ weight[0][0] = 1
    /\ weight[2][0] = 0

---------------------------------------------------------------------------
\* C11: the observation matrix has one row per distinct source and one column
\* per claim row, claim c being the c-th row of the table; B[s][c] is the
\* value of claim c when source s made it and -1 otherwise, so every column
\* holds exactly one entry different from -1.  On fixture A the shape is
\* 3 x 5, B[1][2] = 3 and B[1][0] = -1.
C11_ObservationMatrix ==
    sut = "simpleLCA_EM" =>
        \* the matrix line 40 of the constructor builds, also when a later
        \* line of the constructor raises
        LET B == IF Constructed THEN observation
                 ELSE compute_observation_matrix(
                          WithColumn(input, "claim_id", arange(Len(input))))
        IN  /\ DOMAIN B = 0..Cardinality(Sources) - 1
            /\ \A s \in DOMAIN B :
                   /\ DOMAIN B[s] = 0..Len(input) - 1
                   /\ \A c \in DOMAIN B[s] :
                          B[s][c] = IF input[c + 1].source_id = s
                                    THEN input[c + 1].value ELSE -1
            /\ \A c \in 0..Len(input) - 1 :
                   Cardinality({s \in DOMAIN B : B[s][c] # -1}) = 1
            /\ input = FixtureA =>
                   /\ Cardinality(DOMAIN B) = 3
                   /\ Cardinality(DOMAIN B[0]) = 5
                   /\ B[1][2] = 3
                   /\ B[1][0] = -1

\* fixture A: claim 2 is source 1's, claim 0 is not
C11_Witness ==
    /\ Constructed
    /\ input = FixtureA
    /\ observation[1][2] = 3
    /\ observation[1][0] = -1
    /\ observation[0][0] = 0

---------------------------------------------------------------------------
\* C12: the EM variant and the variational variants use the same per-claim
\* likelihood: the factor compute_responsibility multiplies in for a source
\* of honesty p that asserted x, the candidate value being t, is entry x of
\* _build_claim_probs(p, d, t): p when x = t and (1 - p) / (d - 1) otherwise.
\* Stated on what compute_responsibility returns, the product of the factors
\* of the sources that made a claim about the object (the factor itself when
\* one source did).
C12_Likelihood(o, t) ==
    RProd([s \in 0..n_sources - 1 |->
              IF Claimed(s, o)
              THEN _build_claim_probs(arrays[theta_old][s], domain_size[o],
                                      t)[Asserted(s, o)]
              ELSE One],
          0, n_sources - 1)

C12_SamePerClaimLikelihood ==
    (Constructed /\ followed) =>
        \A o \in Objects :
            domain_size[o] > 1 =>
                \A t \in 0..domain_size[o] - 1 :
                    compute_responsibility(o, t) = C12_Likelihood(o, t)

---------------------------------------------------------------------------
\* C13: for every honesty p in [0, 1], domain size d > 1 and truth t in
\* 0..d-1, _build_claim_probs(p, d, t), in simpleLCA_VI and in LCA, returns
\* d entries, entry t being p and every other entry (1 - p) / (d - 1), so
\* the entries sum to 1.
C13_ClaimProbs ==
    (bcp_ret # Unset /\ bcp_args.domain_size > 1) =>
        LET p == bcp_args.honest_prob
            d == bcp_args.domain_size
            t == bcp_args.truth
        IN  /\ DOMAIN bcp_ret.probs = 0..d - 1
            /\ bcp_ret.probs[t] = p
            /\ \A i \in 0..d - 1 :
                   i # t => bcp_ret.probs[i] = RDiv(RSub(One, p), RInt(d - 1))
            /\ RSum(bcp_ret.probs, 0, d - 1) = One

\* honesty 3/4 over a domain of three values: 1/8, 3/4, 1/8
C13_Witness ==
    /\ bcp_ret # Unset
    /\ bcp_ret.of = "simpleLCA_VI"
    /\ bcp_args = [honest_prob |-> Rat(3, 4), domain_size |-> 3, truth |-> 1]
    /\ bcp_ret.probs = [i \in 0..2 |-> IF i = 1 THEN Rat(3, 4) ELSE Rat(1, 8)]

---------------------------------------------------------------------------
\* C14: within simpleLCA_EM each step writes only its own output, on every
\* pass of discover and in any sequence of e_step / m_step calls: m_step
\* changes the honesty vector theta_new only and leaves the vector theta_old
\* and posterior as they were; e_step changes posterior only and leaves both
\* honesty vectors as they were.  Also for m_step on the passes that follow
\* the hand-over theta_old = theta_new.
C14_StepsWriteOwnOutput ==
    [][/\ (discover_m_step \/ (call_m_step /\ ~m_step_raises)) =>
              /\ arrays'[theta_old'] = arrays[theta_old]
              /\ posterior' = posterior
       /\ (discover_e_step \/ call_e_step) =>
              /\ arrays'[theta_old'] = arrays[theta_old]
              /\ arrays'[theta_new'] = arrays[theta_new]]_vars

---------------------------------------------------------------------------
=============================================================================
